---- MODULE Spec2Model ----
(***************************************************************************)
(* A model of ai_digital_twin_timetable.py: the DigitalTwin entity store,  *)
(* the session expander, the CP-SAT model that TimetableSolver.build       *)
(* emits, the solver driver, the faculty-leave what-if and the KPIs.       *)
(*                                                                         *)
(* The CP-SAT model is kept as data (the set of linear constraints and     *)
(* implications that build adds) and solve returns any valuation of the    *)
(* decision variables that satisfies all of them.                          *)
(***************************************************************************)
EXTENDS Integers, Sequences, FiniteSets, TLC

VARIABLES
    g,               \* DigitalTwin.g: node attributes by label, and the edges
    timeslots,       \* DigitalTwin.timeslots: slot_id -> Timeslot
    current_tt,      \* DigitalTwin.current_tt: the retained TimetableVersion
    pins,            \* the pin set the running build was called with
    session_keys,    \* the list _expand_sessions returned to build
    session_meta,    \* TimetableSolver.session_meta
    x,               \* TimetableSolver.x: the keys (session, room, slot_id)
    y_faculty_slot,  \* TimetableSolver.y_faculty_slot: the keys (faculty, day, idx)
    model,           \* TimetableSolver.model: constraints and objective
    status,          \* the status solve returned
    assign,          \* the assignment solve returned
    report,          \* the dictionary kpis returned
    pc,              \* where the caller stands: idle, built, solved, reported
    fac_avail_refs   \* the faculty whose availability attribute is still bound
                     \* to the one set object fac_avail they were created from

vars == <<g, timeslots, current_tt, pins, session_keys, session_meta, x,
          y_faculty_slot, model, status, assign, report, pc, fac_avail_refs>>

solver_vars == <<pins, session_keys, session_meta, x, y_faculty_slot, model,
                 status, assign, report>>

-----------------------------------------------------------------------------
(* Bounds of the model.                                                    *)

\* Stores differ from the reference twin in at most MaxDev attributes or edges.
MaxDev == 1
\* hours_theory of course M ranges over 0..MaxHours.
MaxHours == 2
\* Only stores that expand to at most MaxSessions sessions are solved.
MaxSessions == 3

-----------------------------------------------------------------------------
(* The week grid and the identifiers of the reference twin, scaled down.   *)

Days == {"MON", "WED"}
Indices == {1, 2}
Grid == Days \X Indices

\* The objective's compact window.
MIDDAY_IDXS == {2, 3, 4}

SlotId(day, index) == day \o "_" \o ToString(index)

ToyTimeslots ==
    [sid \in {SlotId(c[1], c[2]) : c \in Grid} |->
        LET c == CHOOSE c \in Grid : SlotId(c[1], c[2]) = sid
        IN  [day |-> c[1], index |-> c[2]]]

NoTimeslots == [sid \in {} |-> [day |-> "MON", index |-> 1]]

CourseOrder == <<"M", "P">>

\* Every TAKES / ELECTS edge a store of the family may hold, in ingest order.
EnrolOrder ==
    << [label |-> "Section", id |-> "A", rel |-> "TAKES",  course |-> "M"],
       [label |-> "Section", id |-> "B", rel |-> "TAKES",  course |-> "M"],
       [label |-> "Section", id |-> "A", rel |-> "TAKES",  course |-> "P"],
       [label |-> "Section", id |-> "B", rel |-> "TAKES",  course |-> "P"],
       [label |-> "Cohort",  id |-> "A", rel |-> "ELECTS", course |-> "M"] >>

Range(s) == {s[i] : i \in DOMAIN s}

SymDiff(a, b) == (a \ b) \cup (b \ a)

RECURSIVE Concat(_)
Concat(ss) == IF ss = <<>> THEN <<>> ELSE Head(ss) \o Concat(Tail(ss))

-----------------------------------------------------------------------------
(* Feasibility helpers of DigitalTwin.                                     *)

\* feasible_rooms_for with the capacity test the wrong way round.
feasible_rooms_capacity_inverted(graph, course_id, demand_size) ==
    LET c == graph.course[course_id]
        needs_lab == c.facility_needs.lab
        needs_smart == c.facility_needs.smart_class
    IN  {rid \in DOMAIN graph.room :
            LET data == graph.room[rid]
            IN  /\ ~(data.capacity > demand_size)
                /\ ~(needs_lab /\ data.room_type # "lab")
                /\ ~(needs_smart /\ data.room_type \notin {"smart", "lab"})}

feasible_rooms_for(graph, course_id, demand_size) ==
    LET c == graph.course[course_id]
        needs_lab == c.facility_needs.lab
        needs_smart == c.facility_needs.smart_class
    IN  {rid \in DOMAIN graph.room :
            LET data == graph.room[rid]
            IN  /\ ~(data.capacity < demand_size)
                /\ ~(needs_lab /\ data.room_type # "lab")
                /\ ~(needs_smart /\ data.room_type \notin {"smart", "lab"})}

faculty_for_course(graph, course_id) ==
    {e[1] : e \in {e \in graph.can_teach : e[2] = course_id}}

cohorts_for_course(graph, course_id) ==
    LET es == SelectSeq(graph.enrol, LAMBDA e : e.course = course_id)
        cohorts == SelectSeq(es, LAMBDA e :
                       \/ (e.label = "Cohort" /\ e.rel = "ELECTS")
                       \/ (e.label = "Section" /\ e.rel = "TAKES"))
    IN  [i \in 1..Len(cohorts) |->
            IF cohorts[i].label = "Cohort"
            THEN <<cohorts[i].id, graph.cohort[cohorts[i].id].size>>
            ELSE <<cohorts[i].id, graph.section[cohorts[i].id].capacity>>]

-----------------------------------------------------------------------------
(* TimetableSolver._expand_sessions.                                       *)

SessionKey(cid, cohort_id, s_idx) ==
    "S_" \o cid \o "_" \o cohort_id \o "_" \o ToString(s_idx)

total_hours(graph, cid) ==
    graph.course[cid].hours_theory + graph.course[cid].hours_lab

\* The sessions of one (course, cohort) pair, in the order they are appended.
SessionsOfPair(graph, cid, pair) ==
    LET feasible_rooms == feasible_rooms_for(graph, cid, pair[2])
    IN  IF feasible_rooms = {}
        THEN <<>>
        ELSE [k \in 1..total_hours(graph, cid) |->
                [session_key |-> SessionKey(cid, pair[1], k - 1),
                 course_id |-> cid,
                 cohort_id |-> pair[1],
                 size |-> pair[2],
                 candidate_faculties |-> faculty_for_course(graph, cid),
                 feasible_rooms |-> feasible_rooms,
                 duration_blocks |-> 1]]

SessionsOfCourse(graph, cid) ==
    LET cohorts == cohorts_for_course(graph, cid)
    IN  IF total_hours(graph, cid) <= 0 \/ faculty_for_course(graph, cid) = {}
        THEN <<>>
        ELSE Concat([i \in 1..Len(cohorts) |-> SessionsOfPair(graph, cid, cohorts[i])])

\* The expander leaving its course loop at the first course with hours and
\* no mapped faculty: the courses after it are not expanded.
expand_sessions_stop_at_unmapped(graph) ==
    LET unmapped == {i \in 1..Len(CourseOrder) :
                        /\ total_hours(graph, CourseOrder[i]) > 0
                        /\ faculty_for_course(graph, CourseOrder[i]) = {}}
        reached == {i \in 1..Len(CourseOrder) : \A j \in unmapped : i < j}
    IN  Concat([i \in 1..Len(CourseOrder) |->
                   IF i \in reached
                   THEN SessionsOfCourse(graph, CourseOrder[i]) ELSE <<>>])

\* Every session the expander appends, in order (a key may repeat).
expand_sessions(graph) ==
    Concat([i \in 1..Len(CourseOrder) |-> SessionsOfCourse(graph, CourseOrder[i])])

\* session_meta after the loop: a later entry overwrites an earlier one of
\* the same key.
MetaOf(entries) ==
    [sk \in {entries[i].session_key : i \in DOMAIN entries} |->
        LET last == CHOOSE i \in DOMAIN entries :
                        /\ entries[i].session_key = sk
                        /\ \A j \in DOMAIN entries :
                               entries[j].session_key = sk => j <= i
            e == entries[last]
        IN  [course_id |-> e.course_id,
             cohort_id |-> e.cohort_id,
             size |-> e.size,
             candidate_faculties |-> e.candidate_faculties,
             feasible_rooms |-> e.feasible_rooms,
             duration_blocks |-> e.duration_blocks]]

-----------------------------------------------------------------------------
(* The CP-SAT model TimetableSolver.build emits.  A constraint is a record *)
(* [kind, of, vars, y]: kind says how the x variables in vars are bound,   *)
(* of names the block of build that added it, y holds the y variable of an *)
(* implication.                                                            *)

VarName(key) == "x_" \o key[1] \o "_" \o key[2] \o "_" \o key[3]

\* One x variable per session, feasible room of the session and timeslot.
DecisionVars(keys, meta, slots) ==
    {k \in Range(keys) \X (UNION {meta[sk].feasible_rooms : sk \in DOMAIN meta})
                        \X (DOMAIN slots) :
        k[2] \in meta[k[1]].feasible_rooms}

Linear(kind, of, xs) == [kind |-> kind, of |-> of, vars |-> xs, y |-> {}]

\* Each session must be scheduled exactly once (room & slot).
Coverage(keys, xs) ==
    {Linear("sum_eq_1", "session", {k \in xs : k[1] = sk}) :
        sk \in {sk \in Range(keys) : \E k \in xs : k[1] = sk}}

\* RoomExclusion selecting the variables by key[0], the session, in place of
\* key[1], the room: no variable matches and no constraint is added.
RoomExclusionWrongKey(graph, slots, xs) ==
    {Linear("sum_le_1", "room", {k \in xs : k[1] = c[1] /\ k[3] = c[2]}) :
        c \in {c \in (DOMAIN graph.room) \X (DOMAIN slots) :
                  \E k \in xs : k[1] = c[1] /\ k[3] = c[2]}}

\* No double-booking rooms per slot.
RoomExclusion(graph, slots, xs) ==
    {Linear("sum_le_1", "room", {k \in xs : k[2] = c[1] /\ k[3] = c[2]}) :
        c \in {c \in (DOMAIN graph.room) \X (DOMAIN slots) :
                  \E k \in xs : k[2] = c[1] /\ k[3] = c[2]}}

\* The y variable a decision variable is coupled to, for candidate f.
YKey(f, slots, k) == <<f, slots[k[3]].day, slots[k[3]].index>>

\* The (candidate faculty, x variable) pairs the coupling loop visits.
CouplingPairs(meta, xs) ==
    {p \in (UNION {meta[sk].candidate_faculties : sk \in DOMAIN meta}) \X xs :
        p[1] \in meta[p[2][1]].candidate_faculties}

\* The keys of y_faculty_slot the coupling loop creates.
YVars(meta, slots, xs) ==
    {YKey(p[1], slots, p[2]) : p \in CouplingPairs(meta, xs)}

\* If xvar is chosen, the slot is marked as the candidate faculty teaching.
FacultyCoupling(meta, slots, xs) ==
    {[kind |-> "implies", of |-> "faculty", vars |-> {p[2]},
      y |-> {YKey(p[1], slots, p[2])}] : p \in CouplingPairs(meta, xs)}

\* fac_slot_vars[(f, day, idx)]: the x variables appended under that key.
FacSlotVars(meta, slots, xs, yk) ==
    {k \in xs : yk[1] \in meta[k[1]].candidate_faculties /\ YKey(yk[1], slots, k) = yk}

\* FacultyExclusion with fac_slot_vars keyed by the room as well.
FacultyExclusionPerRoom(meta, slots, xs) ==
    {Linear("sum_le_1", "faculty",
            {k \in FacSlotVars(meta, slots, xs, p[1]) : k[2] = p[2]}) :
        p \in YVars(meta, slots, xs) \X {k[2] : k \in xs}}

\* Faculty cannot teach two sessions at the same time.
FacultyExclusion(meta, slots, xs) ==
    {Linear("sum_le_1", "faculty", FacSlotVars(meta, slots, xs, yk)) :
        yk \in YVars(meta, slots, xs)}

\* cohort_slot_vars[(cohort, day, index)].
CohortSlotVars(meta, slots, xs, ck) ==
    {k \in xs : /\ meta[k[1]].cohort_id = ck[1]
                /\ slots[k[3]].day = ck[2]
                /\ slots[k[3]].index = ck[3]}

\* CohortExclusion with cohort_slot_vars keyed by the room as well.
CohortExclusionPerRoom(meta, slots, xs) ==
    {Linear("sum_le_1", "cohort",
            {k \in CohortSlotVars(meta, slots, xs, p[1]) : k[2] = p[2]}) :
        p \in {<<meta[k[1]].cohort_id, slots[k[3]].day, slots[k[3]].index>> : k \in xs}
                  \X {k[2] : k \in xs}}

\* Section/Cohort no-overlap per slot.
CohortExclusion(meta, slots, xs) ==
    {Linear("sum_le_1", "cohort", CohortSlotVars(meta, slots, xs, ck)) :
        ck \in {<<meta[k[1]].cohort_id, slots[k[3]].day, slots[k[3]].index>> : k \in xs}}

\* RoomAvailability looking the variable up as (room, session, slot): the
\* key is never in x and no variable is forced to 0.
RoomAvailabilityWrongKey(graph, slots, keys, xs) ==
    {Linear("eq_0", "room_availability", {k}) :
        k \in {k \in xs : /\ <<k[2], k[1], k[3]>> \in xs
                          /\ <<slots[k[3]].day, slots[k[3]].index>>
                                 \notin graph.room[k[2]].availability}}

\* Respect room availability: a room not available in a slot forces 0.
RoomAvailability(graph, slots, keys, xs) ==
    {Linear("eq_0", "room_availability", {k}) :
        k \in {k \in xs : /\ k[1] \in Range(keys)
                          /\ <<slots[k[3]].day, slots[k[3]].index>>
                                 \notin graph.room[k[2]].availability}}

\* Pins: a pin that is a variable's name fixes that variable to 1 (a name
\* starts with "x_", so the comparison of names contains the prefix test);
\* any other pin key reaches the branch that does nothing.
PinConstraints(pin_keys, xs) ==
    {Linear("eq_1", "pin", {k}) : k \in {k \in xs : VarName(k) \in pin_keys}}

\* The objective: the x variables of the slots in the compact window.
ObjectiveTerms(slots, xs) == {k \in xs : slots[k[3]].index \in MIDDAY_IDXS}

-----------------------------------------------------------------------------
(* The solver driver.  CP-SAT is modelled by what it guarantees: a         *)
(* returned valuation satisfies every constraint of the model, OPTIMAL     *)
(* is returned with a valuation that maximises the objective, INFEASIBLE   *)
(* only when no valuation exists, and when max_time_s runs out the status  *)
(* is FEASIBLE (a solution was found) or UNKNOWN (none was).               *)

NoAssign == [sk \in {} |-> <<"", "", "">>]

\* The valuations that set one x variable of every session that has any;
\* v is the set of x variables that are 1.  Every other valuation breaks a
\* Coverage constraint.
Valuations(xs) ==
    LET sks == {k[1] : k \in xs}
        places == {<<k[2], k[3]>> : k \in xs}
    IN  {{<<sk, f[sk][1], f[sk][2]>> : sk \in sks} :
            f \in {f \in [sks -> places] :
                      \A sk \in sks : <<sk, f[sk][1], f[sk][2]>> \in xs}}

\* The y variables an x valuation forces to 1.  Nothing else binds a y
\* variable, so setting exactly these satisfies every implication.
ImpliedY(cs, v) == UNION {c.y : c \in {c \in cs : c.kind = "implies" /\ c.vars \subseteq v}}

Holds(c, v, yv) ==
    CASE c.kind = "sum_eq_1" -> Cardinality(c.vars \cap v) = 1
      [] c.kind = "sum_le_1" -> Cardinality(c.vars \cap v) <= 1
      [] c.kind = "eq_0"     -> c.vars \cap v = {}
      [] c.kind = "eq_1"     -> c.vars \subseteq v
      [] c.kind = "implies"  -> (c.vars \subseteq v) => (c.y \subseteq yv)

Solutions(cs, xs) ==
    {v \in Valuations(xs) : \A c \in cs : Holds(c, v, ImpliedY(cs, v))}

Score(objective, v) == Cardinality(v \cap objective)

Optimal(cs, objective, xs) ==
    LET sols == Solutions(cs, xs)
    IN  {v \in sols : \A w \in sols : Score(objective, w) <= Score(objective, v)}

\* assign[sk] = (cid, r, ts_id) for every x variable whose value is 1.
Extract(meta, v) ==
    [sk \in {k[1] : k \in v} |->
        LET k == CHOOSE k \in v : k[1] = sk
        IN  <<meta[sk].course_id, k[2], k[3]>>]

-----------------------------------------------------------------------------
(* kpis.                                                                   *)

\* round(n / d, 3) in thousandths, ties to even.
Round3(n, d) ==
    LET q == (1000 * n) \div d
        r == (1000 * n) % d
    IN  IF 2 * r > d \/ (2 * r = d /\ q % 2 = 1) THEN q + 1 ELSE q

NoReport == [room_slot_clashes |-> 0, utilization_ratio |-> 0, assigned_sessions |-> 0]

kpis(a, graph, slots) ==
    LET by_room_slot == [rs \in {<<a[sk][2], a[sk][3]>> : sk \in DOMAIN a} |->
                            Cardinality({sk \in DOMAIN a : <<a[sk][2], a[sk][3]>> = rs})]
        clashes == Cardinality({rs \in DOMAIN by_room_slot : by_room_slot[rs] > 1})
        cells == Cardinality(DOMAIN graph.room) * Cardinality(DOMAIN slots)
    IN  [room_slot_clashes |-> clashes,
         utilization_ratio |->
             Round3(Cardinality(DOMAIN by_room_slot), IF cells > 1 THEN cells ELSE 1),
         assigned_sessions |-> Cardinality(DOMAIN a)]

-----------------------------------------------------------------------------
(* The stores: the reference twin of build_toy_twin scaled down to two     *)
(* courses, two sections, one cohort, two faculty and two rooms, and every *)
(* store that differs from it in at most MaxDev attributes or edges.       *)

BaseEnrol == {EnrolOrder[1], EnrolOrder[4]}
BaseTeach == {<<"F1", "M">>, <<"F2", "P">>}
R1Outage == Grid \ {<<"MON", 2>>}

NoVersion == [assignments |-> NoAssign, pins |-> {}]

\* A retained TimetableVersion with one assignment, pinned by its session
\* key or by the name of its x variable.
Version(sk, cid, r, ts, form) ==
    [assignments |-> [k \in {sk} |-> <<cid, r, ts>>],
     pins |-> {IF form = "key" THEN sk ELSE VarName(<<sk, r, ts>>)}]

Versions ==
    {NoVersion} \cup
    {Version(SessionKey("M", "A", 0), "M", pl[1], pl[2], form) :
        pl \in {<<"R2", SlotId("MON", 1)>>, <<"R1", SlotId("MON", 2)>>},
        form \in {"key", "name"}}

Params ==
    [hM : 0..MaxHours,
     sA : {2, 3},
     r2type : {"lab", "seminar"},
     r1avail : {R1Outage, Grid},
     enrol : {e \in SUBSET Range(EnrolOrder) : Cardinality(SymDiff(e, BaseEnrol)) <= MaxDev},
     teach : {t \in SUBSET ({"F1", "F2"} \X {"M", "P"}) :
                 Cardinality(SymDiff(t, BaseTeach)) <= MaxDev},
     tt : Versions,
     slots : {ToyTimeslots, NoTimeslots}]

\* The number of attributes and edges in which a store differs from the
\* reference twin.
Dev(p) ==
      (IF p.hM # 1 THEN 1 ELSE 0)
    + (IF p.sA # 2 THEN 1 ELSE 0)
    + (IF p.r2type # "lab" THEN 1 ELSE 0)
    + (IF p.r1avail # R1Outage THEN 1 ELSE 0)
    + Cardinality(SymDiff(p.enrol, BaseEnrol))
    + Cardinality(SymDiff(p.teach, BaseTeach))
    + (IF p.tt # NoVersion THEN 1 ELSE 0)
    + (IF p.slots # ToyTimeslots THEN 1 ELSE 0)

\* The availability the faculty of the reference twin are ingested with.
\* F2 and F3 are created from one set object, F1 from a set of its own;
\* F3 teaches nothing.
ToyFacultyAvailability(fid) ==
    IF fid = "F1" THEN {<<"MON", 1>>, <<"MON", 2>>} ELSE {<<"WED", 2>>}

Twin(p) ==
    [course |->
        [cid \in {"M", "P"} |->
            IF cid = "M"
            THEN [hours_theory |-> p.hM, hours_lab |-> 0,
                  facility_needs |-> [lab |-> FALSE, smart_class |-> TRUE]]
            ELSE [hours_theory |-> 0, hours_lab |-> 1,
                  facility_needs |-> [lab |-> TRUE, smart_class |-> FALSE]]],
     room |->
        [rid \in {"R1", "R2"} |->
            IF rid = "R1"
            THEN [room_type |-> "smart", capacity |-> 3, availability |-> p.r1avail]
            ELSE [room_type |-> p.r2type, capacity |-> 2, availability |-> Grid]],
     section |-> [sid \in {"A", "B"} |-> [capacity |-> IF sid = "A" THEN p.sA ELSE 2]],
     cohort |-> [coid \in {"A"} |-> [size |-> 2]],
     faculty |->
        [fid \in {"F1", "F2", "F3"} |->
            [availability |-> ToyFacultyAvailability(fid)]],
     can_teach |-> p.teach,
     enrol |-> SelectSeq(EnrolOrder, LAMBDA e : e \in p.enrol)]

Stores ==
    {p \in Params : Dev(p) <= MaxDev /\ Len(expand_sessions(Twin(p))) <= MaxSessions}

-----------------------------------------------------------------------------
(* The state machine.                                                      *)

NoModel == [constraints |-> {}, objective |-> {}]

FreshSolver ==
    /\ pins = {}
    /\ session_keys = <<>>
    /\ session_meta = [sk \in {} |-> 0]
    /\ x = {}
    /\ y_faculty_slot = {}
    /\ model = NoModel
    /\ status = "NONE"
    /\ assign = NoAssign
    /\ report = NoReport

Init ==
    /\ \E p \in Stores :
        /\ g = Twin(p)
        /\ timeslots = p.slots
        /\ current_tt = p.tt
    /\ FreshSolver
    /\ pc = "idle"
    /\ fac_avail_refs = {"F2", "F3"}

\* apply_faculty_leave writing the leave into the set object the attribute
\* is bound to, which every faculty created from that object reads.
ApplyFacultyLeaveInPlace(faculty_id, day, idx_from, idx_to) ==
    /\ pc = "idle"
    /\ LET f == g.faculty[faculty_id]
           new_avail == {slot \in f.availability :
                            ~(slot[1] = day /\ idx_from <= slot[2] /\ slot[2] <= idx_to)}
           readers == IF faculty_id \in fac_avail_refs
                      THEN fac_avail_refs ELSE {faculty_id}
       IN  g' = [g EXCEPT !.faculty =
                    [fid \in DOMAIN @ |->
                        IF fid \in readers
                        THEN [@[fid] EXCEPT !.availability = new_avail]
                        ELSE @[fid]]]
    /\ UNCHANGED <<timeslots, current_tt, solver_vars, pc, fac_avail_refs>>

\* apply_faculty_leave(twin, faculty_id, day, idx_from, idx_to): new_avail is
\* a new set object, bound to the attribute of this faculty alone.
ApplyFacultyLeave(faculty_id, day, idx_from, idx_to) ==
    /\ pc = "idle"
    /\ LET f == g.faculty[faculty_id]
           new_avail == {slot \in f.availability :
                            ~(slot[1] = day /\ idx_from <= slot[2] /\ slot[2] <= idx_to)}
       IN  g' = [g EXCEPT !.faculty[faculty_id].availability = new_avail]
    /\ fac_avail_refs' = fac_avail_refs \ {faculty_id}
    /\ UNCHANGED <<timeslots, current_tt, solver_vars, pc>>

\* TimetableSolver(twin).build(pins)
Build(pin_keys) ==
    /\ pc = "idle"
    /\ LET entries == expand_sessions(g)
           keys == [i \in DOMAIN entries |-> entries[i].session_key]
           meta == MetaOf(entries)
           xs == DecisionVars(keys, meta, timeslots)
       IN  /\ session_keys' = keys
           /\ session_meta' = meta
           /\ x' = xs
           /\ y_faculty_slot' = YVars(meta, timeslots, xs)
           /\ model' =
                [constraints |->
                    Coverage(keys, xs)
                    \cup RoomExclusion(g, timeslots, xs)
                    \cup FacultyCoupling(meta, timeslots, xs)
                    \cup FacultyExclusion(meta, timeslots, xs)
                    \cup CohortExclusion(meta, timeslots, xs)
                    \cup RoomAvailability(g, timeslots, keys, xs)
                    \cup PinConstraints(pin_keys, xs),
                 objective |-> ObjectiveTerms(timeslots, xs)]
    /\ pins' = pin_keys
    /\ pc' = "built"
    /\ UNCHANGED <<g, timeslots, current_tt, status, assign, report, fac_avail_refs>>

\* TimetableSolver.solve, the search finishing within max_time_s.
SolveComplete ==
    /\ pc = "built"
    /\ \/ /\ Solutions(model.constraints, x) = {}
          /\ status' = "INFEASIBLE"
          /\ assign' = NoAssign
       \/ \E v \in Optimal(model.constraints, model.objective, x) :
             /\ status' = "OPTIMAL"
             /\ assign' = Extract(session_meta, v)
    /\ pc' = "solved"
    /\ UNCHANGED <<g, timeslots, current_tt, pins, session_keys, session_meta, x,
                   y_faculty_slot, model, report, fac_avail_refs>>

\* TimetableSolver.solve, max_time_s running out.
SolveTimeout ==
    /\ pc = "built"
    /\ \/ \E v \in Solutions(model.constraints, x) :
             /\ status' = "FEASIBLE"
             /\ assign' = Extract(session_meta, v)
       \/ /\ status' = "UNKNOWN"
          /\ assign' = NoAssign
    /\ pc' = "solved"
    /\ UNCHANGED <<g, timeslots, current_tt, pins, session_keys, session_meta, x,
                   y_faculty_slot, model, report, fac_avail_refs>>

\* kpis(assign, twin)
Kpis ==
    /\ pc = "solved"
    /\ report' = kpis(assign, g, timeslots)
    /\ pc' = "reported"
    /\ UNCHANGED <<g, timeslots, current_tt, pins, session_keys, session_meta, x,
                   y_faculty_slot, model, status, assign, fac_avail_refs>>

\* The caller drops the solver; the next build runs on a new TimetableSolver.
NewSolver ==
    /\ pc \in {"built", "solved", "reported"}
    /\ pins' = {}
    /\ session_keys' = <<>>
    /\ session_meta' = [sk \in {} |-> 0]
    /\ x' = {}
    /\ y_faculty_slot' = {}
    /\ model' = NoModel
    /\ status' = "NONE"
    /\ assign' = NoAssign
    /\ report' = NoReport
    /\ pc' = "idle"
    /\ UNCHANGED <<g, timeslots, current_tt, fac_avail_refs>>

Next ==
    \/ \E f \in DOMAIN g.faculty, day \in Days, i0 \in Indices, i1 \in Indices :
          ApplyFacultyLeave(f, day, i0, i1)
    \/ \E pin_keys \in {{}, current_tt.pins} : Build(pin_keys)
    \/ SolveComplete
    \/ SolveTimeout
    \/ Kpis
    \/ NewSolver

Spec == Init /\ [][Next]_vars

-----------------------------------------------------------------------------
(* Properties.                                                             *)

\* solve has returned an assignment with status OPTIMAL or FEASIBLE.
Returned == pc \in {"solved", "reported"} /\ status \in {"OPTIMAL", "FEASIBLE"}

\* The grid cell (day, index) of a slot id.
Cell(ts) == <<timeslots[ts].day, timeslots[ts].index>>

RoomOf(sk) == assign[sk][2]
SlotOf(sk) == assign[sk][3]

\* C1: in every assignment returned with status OPTIMAL or FEASIBLE no two
\* distinct sessions share a (room_id, slot_id) pair, and kpis reports
\* room_slot_clashes = 0 for it.
C1_RoomExclusion ==
    Returned =>
        /\ \A s1 \in DOMAIN assign, s2 \in DOMAIN assign :
              s1 # s2 => <<RoomOf(s1), SlotOf(s1)>> # <<RoomOf(s2), SlotOf(s2)>>
        /\ pc = "reported" => report.room_slot_clashes = 0

\* Two sessions of different groups with no candidate faculty in common (only
\* the room constraint keeps them apart) share a room, and kpis has run.
C1_Witness ==
    /\ Returned
    /\ pc = "reported"
    /\ \E s1 \in DOMAIN assign, s2 \in DOMAIN assign :
          /\ s1 # s2
          /\ RoomOf(s1) = RoomOf(s2)
          /\ session_meta[s1].cohort_id # session_meta[s2].cohort_id
          /\ session_meta[s1].candidate_faculties
                 \cap session_meta[s2].candidate_faculties = {}

\* C5: in every returned assignment, two distinct sessions of the same group
\* (section or cohort) are never placed in the same timeslot, whatever their
\* rooms and courses.
C5_GroupExclusion ==
    Returned =>
        \A s1 \in DOMAIN assign, s2 \in DOMAIN assign :
            (s1 # s2 /\ session_meta[s1].cohort_id = session_meta[s2].cohort_id)
                => SlotOf(s1) # SlotOf(s2)

\* Two sessions of one group, of different courses taught by different
\* faculty, are placed in different rooms.
C5_Witness ==
    /\ Returned
    /\ \E s1 \in DOMAIN assign, s2 \in DOMAIN assign :
          /\ session_meta[s1].cohort_id = session_meta[s2].cohort_id
          /\ assign[s1][1] # assign[s2][1]
          /\ faculty_for_course(g, assign[s1][1])
                 \cap faculty_for_course(g, assign[s2][1]) = {}
          /\ RoomOf(s1) # RoomOf(s2)

\* C6: in every returned assignment, for every faculty f and grid cell, at
\* most one session whose candidate-faculty set contains f is placed in
\* that cell.
C6_FacultyExclusion ==
    Returned =>
        \A f \in DOMAIN g.faculty :
            \A s1 \in DOMAIN assign, s2 \in DOMAIN assign :
                (/\ s1 # s2
                 /\ f \in faculty_for_course(g, assign[s1][1])
                 /\ f \in faculty_for_course(g, assign[s2][1]))
                    => Cell(SlotOf(s1)) # Cell(SlotOf(s2))

\* Two sessions of different groups that share a candidate faculty are
\* placed in different rooms.
C6_Witness ==
    /\ Returned
    /\ \E s1 \in DOMAIN assign, s2 \in DOMAIN assign :
          /\ session_meta[s1].cohort_id # session_meta[s2].cohort_id
          /\ faculty_for_course(g, assign[s1][1])
                 \cap faculty_for_course(g, assign[s2][1]) # {}
          /\ RoomOf(s1) # RoomOf(s2)

\* C8: in every returned assignment the room of a session has capacity >=
\* the session's size (equal capacity admitted), is a lab when the course
\* requires lab, and is smart or lab when the course requires smart_class.
C8_RoomFeasible ==
    Returned =>
        \A sk \in DOMAIN assign :
            LET room == g.room[RoomOf(sk)]
                needs == g.course[assign[sk][1]].facility_needs
            IN  /\ room.capacity >= session_meta[sk].size
                /\ needs.lab => room.room_type = "lab"
                /\ needs.smart_class => room.room_type \in {"smart", "lab"}

\* A session sits in a room whose capacity equals its size while another
\* room of the store is too small for it.
C8_Witness ==
    /\ Returned
    /\ \E sk \in DOMAIN assign :
          /\ g.room[RoomOf(sk)].capacity = session_meta[sk].size
          /\ \E r \in DOMAIN g.room : g.room[r].capacity < session_meta[sk].size

\* C9: in every returned assignment the grid cell of a session's slot is in
\* the availability of the room the session is assigned to.
C9_RoomAvailability ==
    Returned =>
        \A sk \in DOMAIN assign :
            Cell(SlotOf(sk)) \in g.room[RoomOf(sk)].availability

\* A session is placed in a room that is unavailable in a cell of the
\* compact window, which the objective prefers.
C9_Witness ==
    /\ Returned
    /\ \E sk \in DOMAIN assign :
          \E ts \in DOMAIN timeslots :
              /\ Cell(ts) \notin g.room[RoomOf(sk)].availability
              /\ timeslots[ts].index \in MIDDAY_IDXS

\* The grid cells apply_faculty_leave has removed from f's availability.
OnLeave(f) == ToyFacultyAvailability(f) \ g.faculty[f].availability

\* C2: in every returned assignment a session whose only candidate is
\* faculty f is not placed in a grid cell that apply_faculty_leave removed
\* from f's availability before the build.
C2_FacultyAvailability ==
    Returned =>
        \A sk \in DOMAIN assign :
            \A f \in DOMAIN g.faculty :
                faculty_for_course(g, assign[sk][1]) = {f}
                    => Cell(SlotOf(sk)) \notin OnLeave(f)

\* The (room, slot) the retained version records for a session.
Recorded(sk) == <<current_tt.assignments[sk][2], current_tt.assignments[sk][3]>>

\* The session is named in the pin set of the running build, by its key or
\* by the name of the x variable of its recorded assignment.
Pinned(sk) ==
    \/ sk \in pins
    \/ VarName(<<sk, Recorded(sk)[1], Recorded(sk)[2]>>) \in pins

\* C3: in every returned assignment each session of the build that the pin
\* set names sits at exactly its recorded (room_id, slot_id).
C3_PinsHonoured ==
    Returned =>
        \A sk \in DOMAIN current_tt.assignments :
            (Pinned(sk) /\ sk \in Range(session_keys))
                => /\ sk \in DOMAIN assign
                   /\ <<RoomOf(sk), SlotOf(sk)>> = Recorded(sk)

\* The recorded (room, slot) of a session is admissible in the current
\* store: the session exists, the room is a feasible room of it, the slot
\* exists and the room is available in the slot's cell.
Admissible(sk) ==
    LET entries == expand_sessions(g)
        r == Recorded(sk)[1]
        ts == Recorded(sk)[2]
    IN  /\ \E i \in DOMAIN entries :
              entries[i].session_key = sk /\ r \in entries[i].feasible_rooms
        /\ ts \in DOMAIN timeslots
        /\ <<timeslots[ts].day, timeslots[ts].index>> \in g.room[r].availability

\* C4: a build whose pin set names a session with an inadmissible recorded
\* (room, slot) fails: the caller never holds a built model, and solve is
\* never reached.
C4_PinInfeasibleDetected ==
    \A sk \in DOMAIN current_tt.assignments :
        (Pinned(sk) /\ ~Admissible(sk)) => pc \notin {"built", "solved", "reported"}

RECURSIVE SumSeq(_)
SumSeq(s) == IF s = <<>> THEN 0 ELSE Head(s) + SumSeq(Tail(s))

\* H of a (course, group) pair when the pair is kept, 0 when it is dropped.
KeptHours(cid, pair) ==
    IF /\ total_hours(g, cid) > 0
       /\ faculty_for_course(g, cid) # {}
       /\ feasible_rooms_for(g, cid, pair[2]) # {}
    THEN total_hours(g, cid)
    ELSE 0

\* The sum of H over the kept (course, group) pairs of the store.
KeptTotal ==
    SumSeq([i \in 1..Len(CourseOrder) |->
        LET cid == CourseOrder[i]
            cohorts == cohorts_for_course(g, cid)
        IN  SumSeq([j \in 1..Len(cohorts) |-> KeptHours(cid, cohorts[j])])])

\* C7: on a store with a week grid, a returned assignment holds one entry
\* for each of the H sessions of every kept (course, group) pair: the number
\* of scheduled sessions is the sum of H over the kept pairs.
C7_CoverageCount ==
    (Returned /\ DOMAIN timeslots # {}) => Cardinality(DOMAIN assign) = KeptTotal

\* The number of sessions of the build whose only candidate is f.
Load(f) ==
    Cardinality({sk \in Range(session_keys) : session_meta[sk].candidate_faculties = {f}})

\* C10: when a faculty is the only candidate of more sessions than its
\* availability has cells, a solve that runs to completion returns
\* INFEASIBLE and an empty assignment.
C10_InsufficientAvailability ==
    (/\ pc \in {"solved", "reported"}
     /\ status \in {"OPTIMAL", "INFEASIBLE"}
     /\ \E f \in DOMAIN g.faculty : Cardinality(g.faculty[f].availability) < Load(f))
        => (status = "INFEASIBLE" /\ assign = NoAssign)

-----------------------------------------------------------------------------
\* The cells {(day, i) : i0 <= i <= i1}.
LeaveCells(day, i0, i1) == {<<day, i>> : i \in i0..i1}

\* C11: every step apply_faculty_leave(twin, f, day, i0, i1) takes leaves
\* availability(f) at exactly its previous value minus the cells
\* {(day, i) : i0 <= i <= i1} and changes nothing else of the store, not
\* even the availability of a faculty created from the same set object;
\* no other operation changes the store; so no step ever adds a cell to a
\* faculty's availability.
C11_LeaveFrame ==
    [][/\ \A f \in DOMAIN g.faculty, day \in Days, i0 \in Indices, i1 \in Indices :
            ApplyFacultyLeave(f, day, i0, i1) =>
                /\ g' = [g EXCEPT !.faculty[f].availability =
                                      @ \ LeaveCells(day, i0, i1)]
                /\ timeslots' = timeslots
                /\ current_tt' = current_tt
       /\ (~ \E f \in DOMAIN g.faculty, day \in Days, i0 \in Indices, i1 \in Indices :
                ApplyFacultyLeave(f, day, i0, i1)) => g' = g
       /\ \A f \in DOMAIN g.faculty :
            g'.faculty[f].availability \subseteq g.faculty[f].availability]_vars

\* F2 has taken leave over its only cell while F3, created from the same
\* set object, still reads that object and keeps the cell.
C11_Witness ==
    /\ fac_avail_refs = {"F3"}
    /\ g.faculty["F2"].availability = {}
    /\ g.faculty["F3"].availability = ToyFacultyAvailability("F3")

-----------------------------------------------------------------------------
\* The (course, group) pairs of the store whose course has hours, each as
\* <<course id, <<group id, demand>>>>.
Pairs ==
    UNION {{<<cid, pair>> : pair \in Range(cohorts_for_course(g, cid))} :
              cid \in {c \in Range(CourseOrder) : total_hours(g, c) > 0}}

\* The unschedulable pairs: no CAN_TEACH faculty for the course, or no
\* feasible room for the course and the demand of the group.
DroppedPairs ==
    {cp \in Pairs : \/ faculty_for_course(g, cp[1]) = {}
                    \/ feasible_rooms_for(g, cp[1], cp[2][2]) = {}}

KeptPairs == Pairs \ DroppedPairs

\* The session keys of the H sessions of every kept pair.
KeptKeys ==
    UNION {{SessionKey(cp[1], cp[2][1], k) : k \in 0..(total_hours(g, cp[1]) - 1)} :
              cp \in KeptPairs}

\* The remainder alone: the store without the enrolment edges of the
\* unschedulable pairs.
Remainder ==
    [g EXCEPT !.enrol = SelectSeq(@, LAMBDA e :
        <<e.course, <<e.id, IF e.label = "Cohort"
                            THEN g.cohort[e.id].size
                            ELSE g.section[e.id].capacity>>>> \notin DroppedPairs)]

\* Some assignment of the built model places every session of the kept pairs.
RemainderFeasible ==
    \E v \in Solutions(model.constraints, x) : KeptKeys \subseteq {k[1] : k \in v}

\* C12: on a store with an unschedulable pair the build returns a model in
\* which no session carries a dropped pair, every session of every other pair is
\* created, the sessions built are those the remainder alone expands to, and
\* when the remainder can be scheduled a solve that returns a verdict returns
\* OPTIMAL or FEASIBLE with every session of the kept pairs placed.
C12_DroppedPairs ==
    (pc \in {"built", "solved", "reported"} /\ DroppedPairs # {}) =>
        /\ \A cp \in DroppedPairs : \A sk \in DOMAIN session_meta :
              ~ /\ session_meta[sk].course_id = cp[1]
                /\ session_meta[sk].cohort_id = cp[2][1]
                /\ session_meta[sk].size = cp[2][2]
        /\ KeptKeys \subseteq Range(session_keys)
        /\ LET entries == expand_sessions(Remainder)
           IN  /\ session_keys = [i \in DOMAIN entries |-> entries[i].session_key]
               /\ session_meta = MetaOf(entries)
        /\ (/\ pc \in {"solved", "reported"}
            /\ status # "UNKNOWN"
            /\ RemainderFeasible)
              => /\ status \in {"OPTIMAL", "FEASIBLE"}
                 /\ KeptKeys \subseteq DOMAIN assign

\* Course P has hours and no CAN_TEACH faculty, and the sessions of the
\* kept pair of course M are scheduled with status OPTIMAL.
C12_Witness ==
    /\ pc = "solved"
    /\ status = "OPTIMAL"
    /\ faculty_for_course(g, "P") = {}
    /\ \E cp \in DroppedPairs : cp[1] = "P"
    /\ \E cp \in KeptPairs : cp[1] = "M"
    /\ KeptKeys # {}
    /\ KeptKeys \subseteq DOMAIN assign

-----------------------------------------------------------------------------
\* C13: within one build the list of session keys has no duplicates and
\* every appended session keeps its own metadata and its own decision
\* variables: no key is written twice.
C13_UniqueKeys ==
    pc \in {"built", "solved", "reported"} =>
        /\ \A i \in DOMAIN session_keys, j \in DOMAIN session_keys :
              i # j => session_keys[i] # session_keys[j]
        /\ Cardinality(DOMAIN session_meta) = Len(session_keys)
        /\ Cardinality({k[1] : k \in x}) = Len(session_keys) \/ DOMAIN timeslots = {}

====
